---------------------------- MODULE Spec2Model ----------------------------
(***************************************************************************)
(* Zentral client-side data-access layer: the StorageService facade        *)
(* (storage_service.js), the LocalStorageAdapter (local_storage_adapter.js)*)
(* and the ApiAdapter (api_adapter.js), as a state machine.                *)
(*                                                                         *)
(* JavaScript values are encoded as records [t, n, s]: t is the type tag   *)
(* ("undef", "null", "num", "str"), n the number, s the string as a        *)
(* sequence of one-character strings.  An absent field of an object is the *)
(* value Undef (JSON.stringify drops undefined fields, so the two are      *)
(* indistinguishable to the code modelled here).                           *)
(***************************************************************************)
EXTENDS Integers, Sequences, FiniteSets, TLC

(* ------------------------------ bounds --------------------------------- *)
\* Date.now() ranges over 1..MaxClock
MaxClock == 2
\* facade calls started in one run
MaxCalls == 2

(* --------------------------- JavaScript values ------------------------- *)
Undef == [t |-> "undef", n |-> 0, s |-> << >>]
Null == [t |-> "null", n |-> 0, s |-> << >>]
Num(k) == [t |-> "num", n |-> k, s |-> << >>]
Str(q) == [t |-> "str", n |-> 0, s |-> q]

\* JS truthiness of a primitive: 0, '', null and undefined are falsy
Truthy(v) == (v.t = "num" /\ v.n # 0) \/ (v.t = "str" /\ v.s # << >>)

\* v ?? d
Coalesce(v, d) == IF v.t \in {"undef", "null"} THEN d ELSE v

DigitChars == <<"0", "1", "2", "3", "4", "5", "6", "7", "8", "9">>

\* String(n) for a non-negative integer: its decimal digits
RECURSIVE StrOfNat(_)
StrOfNat(k) ==
    IF k < 10 THEN <<DigitChars[k + 1]>>
    ELSE StrOfNat(k \div 10) \o <<DigitChars[(k % 10) + 1]>>

\* String(v) for a primitive that is not null/undefined
ToStr(v) == IF v.t = "num" THEN Str(StrOfNat(v.n)) ELSE v

\* String.prototype.trim on a character sequence
RECURSIVE TrimLeft(_)
TrimLeft(q) == IF q # << >> /\ Head(q) = " " THEN TrimLeft(Tail(q)) ELSE q
RECURSIVE TrimRight(_)
TrimRight(q) ==
    IF q # << >> /\ q[Len(q)] = " " THEN TrimRight(SubSeq(q, 1, Len(q) - 1)) ELSE q
Trim(q) == TrimRight(TrimLeft(q))

\* storage_service.js: safeStr(v) == String(v ?? '')
safeStr(v) == ToStr(Coalesce(v, Str(<< >>)))

(* ------------------------------- records ------------------------------- *)
\* origin_ref: obj = FALSE stands for a value that is not record-shaped
NoRef == [obj |-> FALSE, product_id |-> Undef, lot_id |-> Undef,
          inventory_movement_id |-> Undef]
Ref(p, l, m) == [obj |-> TRUE, product_id |-> p, lot_id |-> l,
                 inventory_movement_id |-> m]
NullRef == Ref(Null, Null, Null)

\* One shape for the records of every entity kind; a field a record does not
\* carry is Undef ("" for origin).  obj = FALSE is a value that is not
\* record-shaped (null, a number, ...).  tag stands for the fields the layer
\* treats as opaque (amount, name, ...); srv marks a record as returned by the
\* remote service.
Item(id, ticket, product, origin, ref, created, tag) ==
    [obj |-> TRUE, id |-> id, ticket |-> ticket, product_id |-> product,
     origin |-> origin, origin_ref |-> ref, created_at |-> created,
     tag |-> tag, srv |-> FALSE]
EmptyObj == Item(Undef, Undef, Undef, "", NoRef, Undef, 0)
NonObj == [EmptyObj EXCEPT !.obj = FALSE]

\* it && typeof it === 'object' ? it : {}
AsObject(it) == IF it.obj THEN it ELSE EmptyObj

\* a value that may or may not be an array (Array.isArray)
Arr(items) == [isArray |-> TRUE, items |-> items]
NotArr == [isArray |-> FALSE, items |-> << >>]

\* storage_service.js: ensureArray
ensureArray(x) == IF x.isArray THEN x.items ELSE << >>

InventoryAliases == {"Inventory", "Desde Inventario", "InventoryOrigin"}

\* storage_service.js: normalizeExpense(exp), with nowTs() = now
MutNormalizeRestamps(exp, now) ==
    LET e == AsObject(exp)
        origin == IF e.origin \in {"inventory"} \cup InventoryAliases THEN "inventory"
                  ELSE "manual"
        originRef == IF e.origin_ref.obj THEN e.origin_ref ELSE NullRef
    IN  [e EXCEPT !.origin = origin,
                  !.origin_ref = Ref(Coalesce(originRef.product_id, Null),
                                     Coalesce(originRef.lot_id, Null),
                                     Coalesce(originRef.inventory_movement_id, Null)),
                  !.created_at = Num(now)]
MutNormalizeKeepsOrigin(exp, now) ==
    LET e == AsObject(exp)
        origin == IF e.origin \in {"inventory", "manual"} THEN e.origin
                  ELSE IF e.origin \in InventoryAliases THEN "inventory"
                  ELSE IF e.origin # "" THEN e.origin ELSE "manual"
        createdAt == IF e.created_at.t = "num" THEN e.created_at ELSE Num(now)
        originRef == IF e.origin_ref.obj THEN e.origin_ref ELSE NullRef
    IN  [e EXCEPT !.origin = origin,
                  !.origin_ref = Ref(Coalesce(originRef.product_id, Null),
                                     Coalesce(originRef.lot_id, Null),
                                     Coalesce(originRef.inventory_movement_id, Null)),
                  !.created_at = createdAt]
normalizeExpense(exp, now) ==
    LET e == AsObject(exp)
        origin == IF e.origin \in {"inventory", "manual"} THEN e.origin
                  ELSE IF e.origin \in InventoryAliases THEN "inventory"
                  ELSE IF e.origin # "" THEN e.origin ELSE "manual"
        originNorm == IF origin = "inventory" THEN "inventory" ELSE "manual"
        createdAt == IF e.created_at.t = "num" THEN e.created_at ELSE Num(now)
        originRef == IF e.origin_ref.obj THEN e.origin_ref ELSE NullRef
    IN  [e EXCEPT !.origin = originNorm,
                  !.origin_ref = Ref(Coalesce(originRef.product_id, Null),
                                     Coalesce(originRef.lot_id, Null),
                                     Coalesce(originRef.inventory_movement_id, Null)),
                  !.created_at = createdAt]

\* arr.map(normalizeExpense)
MapNormalize(items, now) == [i \in 1..Len(items) |-> normalizeExpense(items[i], now)]

(* ------------------------------ the state ------------------------------ *)
VARIABLES
    adapter,   \* StorageService._adapter: "none", "Local", "Api" or "Custom"
    custom,    \* the object bound when adapter = "Custom": [async, caps]
    win,       \* which adapters the host page loaded: [api, local]
    ns,        \* window.__storage_ns, the tenant namespace marker
    clock,     \* Date.now()
    calls,     \* facade calls started so far
    local,     \* window.localStorage: key -> stored value
    remote,    \* the remote service's collections, per entity kind
    mem,       \* the collections behind the Custom adapter, per entity kind
    pc,        \* per caller: "idle", "read_wait", "write_wait", "item_wait", "done"
    op,        \* per caller: the facade call being run
    loc,       \* per caller: the locals of the suspended call
    ret,       \* per caller: what the facade call returned
    log,       \* per caller: adapter calls and requests made by the current call
    hist       \* per caller: history of the current call (for the properties)

vars == <<adapter, custom, win, ns, clock, calls, local, remote, mem,
          pc, op, loc, ret, log, hist>>

Callers == {"c1", "c2"}

StoredKinds == {"expenses", "expenseCategories", "suppliers", "employees", "customers",
                "inventoryProducts", "inventoryLots", "inventoryMovements", "sales"}
ViewKinds == {"cashCounts", "overdue"}
Kinds == StoredKinds \cup ViewKinds

(* ---------------------- local_storage_adapter.js ----------------------- *)
\* _nsPrefix(): String(window.__storage_ns || '').trim(), '' or 'ns:<ns>:'
MutNsPrefixIgnoresMarker(marker) == << >>
nsPrefix(marker) ==
    LET t == Trim(IF Truthy(marker) THEN ToStr(marker).s ELSE << >>)
    IN  IF t = << >> THEN << >> ELSE <<"n", "s", ":">> \o t \o <<":">>

\* nsKey(key): the prefix followed by the key (kept as a pair)
nsKey(marker, key) == <<nsPrefix(marker), key>>

KEY == [expenses |-> "egresos_dummy",
        expenseCategories |-> "expense_categories_dummy",
        suppliers |-> "suppliers_dummy",
        employees |-> "empleados_dummy",
        customers |-> "customers_dummy",
        inventoryProducts |-> "inventory_products_dummy",
        inventoryLots |-> "inventory_lots_dummy",
        inventoryMovements |-> "inventory_movements_dummy",
        sales |-> "sales_dummy"]

\* A stored string: raw is "missing" (getItem gives null), "empty" (''),
\* "array" (the JSON text of an array of items), "nonarray" (JSON text of
\* something else) or "garbage" (not JSON).
Missing == [raw |-> "missing", items |-> << >>]
Stored(items) == [raw |-> "array", items |-> items]
StoredEmpty == [raw |-> "empty", items |-> << >>]
StoredNonArray == [raw |-> "nonarray", items |-> << >>]
StoredGarbage == [raw |-> "garbage", items |-> << >>]

\* JSON.parse(JSON.stringify(items)): field by field; an undefined field is
\* dropped and reads back as undefined, every other modelled value survives
JsonField(v) == IF v.t = "undef" THEN Undef ELSE v
JsonRef(r) == [r EXCEPT !.product_id = JsonField(@), !.lot_id = JsonField(@),
                        !.inventory_movement_id = JsonField(@)]
JsonItem(it) == [it EXCEPT !.id = JsonField(@), !.ticket = JsonField(@),
                           !.product_id = JsonField(@), !.created_at = JsonField(@),
                           !.origin_ref = JsonRef(@)]
JsonItems(items) == [i \in 1..Len(items) |-> JsonItem(items[i])]

\* readJson(key); broken: the underlying store throws
readJson(ls, marker, key, broken) ==
    IF broken THEN << >>
    ELSE LET v == ls[nsKey(marker, key)]
         IN  IF v.raw = "array" THEN v.items ELSE << >>

\* writeJson(key, value); ok = FALSE: setItem throws and the error is swallowed
MutWriteJsonMerge(ls, marker, key, value, ok) ==
    IF ok
    THEN [ls EXCEPT ![nsKey(marker, key)] =
             Stored(readJson(ls, marker, key, FALSE) \o JsonItems(value))]
    ELSE ls
MutWriteJsonClears(ls, marker, key, value, ok) ==
    [ls EXCEPT ![nsKey(marker, key)] = IF ok THEN Stored(JsonItems(value)) ELSE Missing]
writeJson(ls, marker, key, value, ok) ==
    IF ok THEN [ls EXCEPT ![nsKey(marker, key)] = Stored(JsonItems(value))] ELSE ls

\* LocalStorageAdapter.get<Kind>() / save<Kind>(arr)
MutLocalGetUnguarded(ls, marker, kind, broken) ==
    IF broken \/ ls[nsKey(marker, KEY[kind])].raw # "array" THEN NotArr
    ELSE Arr(ls[nsKey(marker, KEY[kind])].items)
LocalGet(ls, marker, kind, broken) == Arr(readJson(ls, marker, KEY[kind], broken))
LocalSave(ls, marker, kind, arr, ok) ==
    writeJson(ls, marker, KEY[kind], IF arr.isArray THEN arr.items ELSE << >>, ok)

LocalCaps == {<<"get", k>> : k \in StoredKinds} \cup {<<"save", k>> : k \in StoredKinds}

(* --------------------------- api_adapter.js ---------------------------- *)
ApiCaps == LocalCaps \cup {<<"get", k>> : k \in ViewKinds}

\* kinds whose save is one bulk request, a loop of item requests, or nothing
ApiBulkKinds == {"expenses", "suppliers", "employees", "customers", "expenseCategories"}
ApiItemKinds == {"inventoryProducts", "sales"}
ApiNoopKinds == {"inventoryLots", "inventoryMovements"}

\* A response: the transport status and the body's ok flag
Responses == [httpOk : BOOLEAN, okFlag : {"absent", "true", "false"}]

\* _json: throws when !res.ok || data.ok === false
MutJsonFailsStatusOnly(r) == ~r.httpOk
jsonFails(r) == ~r.httpOk \/ r.okFlag = "false"

\* Array.isArray(data.items) ? data.items : []
ItemsOf(data) == IF data.isArray THEN data.items ELSE << >>

(* ------------------------- storage_service.js -------------------------- *)
\* what a facade call hands back: an array, undefined or a number
ArrVal(items) == [t |-> "arr", items |-> items, n |-> 0]
UndefVal == [t |-> "undef", items |-> << >>, n |-> 0]
NumVal(k) == [t |-> "num", items |-> << >>, n |-> k]
\* getAdapter() hands back the adapter object: t names it
AdapterVal(ad) == [t |-> ad, items |-> << >>, n |-> 0]

\* mode: "immediate" (a plain value), "deferred" (a promise; st says whether it
\* is pending, resolved or rejected) or "thrown" (the call raised)
NoRet == [mode |-> "none", st |-> "none", val |-> UndefVal, err |-> ""]
Immediate(val) == [mode |-> "immediate", st |-> "ok", val |-> val, err |-> ""]
Thrown(msg) == [mode |-> "thrown", st |-> "err", val |-> UndefVal, err |-> msg]
Pending == [mode |-> "deferred", st |-> "pending", val |-> UndefVal, err |-> ""]
Resolved(val) == [mode |-> "deferred", st |-> "ok", val |-> val, err |-> ""]
Rejected(msg) == [mode |-> "deferred", st |-> "err", val |-> UndefVal, err |-> msg]

\* the operations the facade probes for before calling them
OptionalOps == {<<"get", "inventoryMovements">>, <<"save", "inventoryMovements">>,
                <<"get", "employees">>, <<"save", "employees">>,
                <<"get", "cashCounts">>, <<"get", "overdue">>}
FacadeGetKinds == {"expenses", "inventoryProducts", "inventoryLots", "inventoryMovements",
                   "employees", "suppliers", "customers", "sales", "cashCounts", "overdue"}
FacadeSaveKinds == {"expenses", "inventoryProducts", "inventoryLots", "inventoryMovements",
                    "employees", "suppliers", "customers", "sales"}

IsAsync(ad) == ad = "Api" \/ (ad = "Custom" /\ custom.async)
CapsOf(ad) == IF ad = "Local" THEN LocalCaps ELSE IF ad = "Api" THEN ApiCaps ELSE custom.caps

\* arr.findIndex(x => safeStr(x?.id) === id), 0 for -1
FindIndex(arr, id) ==
    LET hits == {i \in 1..Len(arr) : safeStr(arr[i].id) = id}
    IN  IF hits = {} THEN 0 ELSE CHOOSE i \in hits : \A j \in hits : i <= j

\* upsertExpense, lines 72-77 and 81-86: assign the id, replace or append
MutUpsertAlwaysPush(arr, next, now) ==
    Append(arr, [next EXCEPT !.id = safeStr(IF Truthy(next.id) THEN next.id ELSE Num(now))])
MutUpsertPushesToo(arr, next, now) ==
    LET id == safeStr(IF Truthy(next.id) THEN next.id ELSE Num(now))
        nx == [next EXCEPT !.id = id]
        idx == FindIndex(arr, id)
    IN  Append(IF idx > 0 THEN [arr EXCEPT ![idx] = nx] ELSE arr, nx)
UpsertList(arr, next, now) ==
    LET id == safeStr(IF Truthy(next.id) THEN next.id ELSE Num(now))
        nx == [next EXCEPT !.id = id]
        idx == FindIndex(arr, id)
    IN  IF idx > 0 THEN [arr EXCEPT ![idx] = nx] ELSE Append(arr, nx)

\* addExpenseFromInventory, line 91: normalizeExpense({...expense, origin: 'inventory'})
FromInventory(expense, now) ==
    normalizeExpense([AsObject(expense) EXCEPT !.origin = "inventory"], now)

\* addInventoryProduct / addInventoryMovement / addInventoryLot: { ...x, id }
WithId(x, now) ==
    LET o == AsObject(x)
    IN  [o EXCEPT !.id = safeStr(IF Truthy(o.id) THEN o.id ELSE Num(now))]

\* addInventoryLot, lines 174-177: the expense handed to addExpenseFromInventory
LotExpense(exp, payload) ==
    [exp EXCEPT !.origin_ref = Ref(Coalesce(payload.product_id, Null), payload.id, Null)]

\* what the facade passes to the adapter's save<Kind>
MutSavePayloadRaw(kind, arr, now) == ensureArray(arr)
SavePayload(kind, arr, now) ==
    IF kind = "expenses" THEN MapNormalize(ensureArray(arr), now) ELSE ensureArray(arr)

\* what the facade makes of the adapter's get<Kind> result
GetResult(kind, res, now) ==
    IF kind = "overdue" THEN NumVal(Len(ensureArray(res)))
    ELSE IF kind = "expenses" THEN ArrVal(MapNormalize(ensureArray(res), now))
    ELSE ArrVal(ensureArray(res))

\* an entry of a caller's log: an adapter call ("call") or a request ("req")
Ev(ev, what, kind, item) == [ev |-> ev, what |-> what, kind |-> kind, item |-> item]

(* Synchronous adapters: a facade call runs to its end in one turn.  x is    *)
(* the world it runs in: [local, mem, log].                                  *)
SyncRead(x, kind) ==
    IF adapter = "Local" THEN LocalGet(x.local, ns, kind, FALSE) ELSE Arr(x.mem[kind])
SyncWrite(x, kind, items, ok) ==
    IF adapter = "Local"
    THEN [x EXCEPT !.local = LocalSave(@, ns, kind, Arr(items), ok)]
    ELSE [x EXCEPT !.mem = IF ok THEN [@ EXCEPT ![kind] = items] ELSE @]

\* get<Kind>() on a synchronous adapter
MutGetSyncNoProbe(x, kind, now) ==
    [x |-> [x EXCEPT !.log = Append(@, Ev("call", "get", kind, NonObj))],
     val |-> GetResult(kind, SyncRead(x, kind), now),
     thrown |-> <<"get", kind>> \notin CapsOf(adapter)]
GetSync(x, kind, now) ==
    IF <<"get", kind>> \in OptionalOps /\ <<"get", kind>> \notin CapsOf(adapter)
    THEN [x |-> x, val |-> IF kind = "overdue" THEN NumVal(0) ELSE ArrVal(<< >>),
          thrown |-> FALSE]
    ELSE [x |-> [x EXCEPT !.log = Append(@, Ev("call", "get", kind, NonObj))],
          val |-> GetResult(kind, SyncRead(x, kind), now),
          thrown |-> <<"get", kind>> \notin CapsOf(adapter)]

\* save<Kind>(arr) on a synchronous adapter (both return undefined)
SaveSync(x, kind, arr, now, ok) ==
    IF <<"save", kind>> \in OptionalOps /\ <<"save", kind>> \notin CapsOf(adapter)
    THEN [x |-> x, val |-> UndefVal, thrown |-> FALSE]
    ELSE [x |-> SyncWrite([x EXCEPT !.log = Append(@, Ev("call", "save", kind, NonObj))],
                          kind, SavePayload(kind, arr, now), ok),
          val |-> UndefVal,
          thrown |-> <<"save", kind>> \notin CapsOf(adapter)]

\* upsertExpense(expense), lines 68-69 and 81-87
UpsertSync(x, expense, now, ok) ==
    LET next == normalizeExpense(expense, now)
        got == GetSync(x, "expenses", now)
    IN  IF got.thrown THEN got
        ELSE SaveSync(got.x, "expenses", Arr(UpsertList(got.val.items, next, now)), now, ok)

\* addInventoryProduct / addInventoryMovement, synchronous path
MutAddSyncDropsList(x, kind, item, now, ok) ==
    LET got == GetSync(x, kind, now)
    IN  IF got.thrown THEN got
        ELSE SaveSync(got.x, kind, Arr(<<WithId(item, now)>>), now, ok)
AddSync(x, kind, item, now, ok) ==
    LET payload == WithId(item, now)
        got == GetSync(x, kind, now)
    IN  IF got.thrown THEN got
        ELSE SaveSync(got.x, kind, Arr(Append(got.val.items, payload)), now, ok)

\* addInventoryLot(lot, expensePayload), lines 165-178 and 182
AddLotSync(x, lot, exp, now, ok1, ok2) ==
    LET payload == WithId(lot, now)
        got == GetSync(x, "inventoryLots", now)
        saved == SaveSync(got.x, "inventoryLots", Arr(Append(got.val.items, payload)),
                          now, ok1)
    IN  IF got.thrown THEN got
        ELSE IF saved.thrown \/ ~exp.obj THEN saved
        ELSE UpsertSync(saved.x, FromInventory(LotExpense(exp, payload), now), now, ok2)

(* Asynchronous adapters: a facade call suspends at each request.  A caller  *)
(* is [pc, loc, ret, log]; these operators give the caller as the code       *)
(* leaves it at its next suspension point (or at its end).                   *)
NoItem == NonObj
\* a write whose promise nobody holds (saveLotsRes, line 171, when an expense
\* payload follows): none, pending, ok or failed
NoBg == [st |-> "none", via |-> "none", kind |-> "", payload |-> << >>]
\* via: the adapter the pending request was made through
NoLoc == [kind |-> "", via |-> "none", phase |-> "", next |-> NoItem, payload |-> << >>,
          idx |-> 0, out |-> << >>, bg |-> NoBg]
Cs(p, l, r, g) == [pc |-> p, loc |-> l, ret |-> r, log |-> g]

\* id != null && String(id).trim() !== ''
HasNaturalId(v) == v.t \notin {"undef", "null"} /\ Trim(ToStr(v).s) # << >>
NaturalId(kind, p) == IF kind = "sales" THEN p.ticket ELSE p.id

\* saveInventoryProducts / saveSales: the request made for one item
ItemReq(kind, it) ==
    LET p == AsObject(it)
    IN  Ev("req", IF HasNaturalId(NaturalId(kind, p)) THEN "PUT" ELSE "POST", kind, p)

\* ApiAdapter.save<Kind>(arr) (and the Custom adapter's), up to its first request
MutSaveStepNoopAsBulk(ad, kind, arr, l, g) ==
    Cs("write_wait", [l EXCEPT !.kind = kind, !.via = ad, !.payload = ItemsOf(arr)], Pending,
       Append(Append(g, Ev("call", "save", kind, NoItem)), Ev("req", "POST", kind, NoItem)))
AsyncSaveStep(ad, kind, arr, l, g) ==
    LET items == ItemsOf(arr)
        g1 == Append(g, Ev("call", "save", kind, NoItem))
    IN  IF ad = "Api" /\ kind \in ApiNoopKinds
        THEN Cs("done", l, Resolved(ArrVal(items)), g1)
        ELSE IF ad = "Api" /\ kind \in ApiItemKinds
        THEN IF items = << >>
             THEN Cs("done", l, Resolved(ArrVal(<< >>)), g1)
             ELSE Cs("item_wait",
                     [l EXCEPT !.kind = kind, !.via = ad, !.payload = items, !.idx = 1,
                               !.out = << >>],
                     Pending, Append(g1, ItemReq(kind, items[1])))
        ELSE Cs("write_wait", [l EXCEPT !.kind = kind, !.via = ad, !.payload = items], Pending,
                Append(g1, Ev("req", "POST", kind, NoItem)))

\* ApiAdapter.get<Kind>(opts) (and the Custom adapter's), up to its request
AsyncGetStep(ad, kind, phase, l, g) ==
    Cs("read_wait", [l EXCEPT !.kind = kind, !.via = ad, !.phase = phase], Pending,
       Append(Append(g, Ev("call", "get", kind, NoItem)), Ev("req", "GET", kind, NoItem)))

\* facade save<Kind>(arr) on an asynchronous adapter
FacadeSaveAsync(ad, kind, arr, now, l, g) ==
    IF <<"save", kind>> \in OptionalOps /\ <<"save", kind>> \notin CapsOf(ad)
    THEN Cs("done", l, Immediate(UndefVal), g)
    ELSE AsyncSaveStep(ad, kind, Arr(SavePayload(kind, arr, now)), l, g)

\* facade get<Kind>(opts) on an asynchronous adapter
FacadeGetAsync(ad, kind, phase, l, g) ==
    IF <<"get", kind>> \in OptionalOps /\ <<"get", kind>> \notin CapsOf(ad)
    THEN Cs("done", l, Immediate(IF kind = "overdue" THEN NumVal(0) ELSE ArrVal(<< >>)), g)
    ELSE AsyncGetStep(ad, kind, phase, l, g)

\* a facade call: its name, the entity kind, and its arguments
Op(name, kind, e, e2, arr) == [name |-> name, kind |-> kind, e |-> e, e2 |-> e2, arr |-> arr]
NoOp == Op("none", "", NoItem, NoItem, NotArr)

\* the facade call o on an asynchronous adapter, up to its first suspension
StartAsync(ad, o, now) ==
    CASE o.name = "getAdapter" -> Cs("done", NoLoc, Immediate(AdapterVal(ad)), << >>)
      [] o.name = "get" -> FacadeGetAsync(ad, o.kind, "get", NoLoc, << >>)
      [] o.name = "save" -> FacadeSaveAsync(ad, o.kind, o.arr, now, NoLoc, << >>)
      [] o.name = "upsertExpense" ->
            FacadeGetAsync(ad, "expenses", "upsert",
                           [NoLoc EXCEPT !.next = normalizeExpense(o.e, now)], << >>)
      [] o.name = "addExpenseFromInventory" ->
            FacadeGetAsync(ad, "expenses", "upsert",
                           [NoLoc EXCEPT !.next = normalizeExpense(FromInventory(o.e, now), now)],
                           << >>)
      [] o.name \in {"addInventoryProduct", "addInventoryMovement"} ->
            LET l == [NoLoc EXCEPT !.next = WithId(o.e, now)]
                got == FacadeGetAsync(ad, o.kind, "add", l, << >>)
            IN  IF got.pc = "done"
                THEN FacadeSaveAsync(ad, o.kind, Arr(Append(got.ret.val.items, l.next)),
                                     now, got.loc, got.log)
                ELSE got
      [] o.name = "addInventoryLot" ->
            FacadeGetAsync(ad, "inventoryLots", "lot",
                           [NoLoc EXCEPT !.next = WithId(o.e, now)], << >>)
      [] o.name = "adapterSave" -> AsyncSaveStep(ad, o.kind, o.arr, NoLoc, << >>)

\* a .then callback handing back a plain value resolves the promise with it
Chain(cs) == IF cs.ret.mode = "immediate" THEN [cs EXCEPT !.ret = Resolved(cs.ret.val)] ELSE cs

\* the .then callback of a facade call whose read resolved with `items`
MutThenDropsList(ad, o, l, g, items, now) ==
    FacadeSaveAsync(ad, "expenses", Arr(<<[l.next EXCEPT !.id =
        safeStr(IF Truthy(l.next.id) THEN l.next.id ELSE Num(now))]>>), now, l, g)
ThenAsync(ad, o, l, g, items, now) ==
    CASE l.phase = "get" -> Cs("done", l, Resolved(GetResult(l.kind, Arr(items), now)), g)
      [] l.phase = "upsert" ->
            LET arr == UpsertList(MapNormalize(items, now), l.next, now)
                id == safeStr(IF Truthy(l.next.id) THEN l.next.id ELSE Num(now))
            IN  FacadeSaveAsync(ad, "expenses", Arr(arr), now, [l EXCEPT !.next.id = id], g)
      [] l.phase = "add" ->
            FacadeSaveAsync(ad, l.kind, Arr(Append(items, l.next)), now, l, g)
      [] l.phase = "lot" ->
            LET saved == FacadeSaveAsync(ad, "inventoryLots", Arr(Append(items, l.next)),
                                         now, l, g)
                \* saveLotsRes is dropped: its request stays in flight
                bg == IF saved.pc = "write_wait"
                      THEN [st |-> "pending", via |-> saved.loc.via, kind |-> saved.loc.kind,
                            payload |-> saved.loc.payload]
                      ELSE NoBg
            IN  IF ~o.e2.obj THEN saved
                ELSE FacadeGetAsync(ad, "expenses", "upsert",
                        [saved.loc EXCEPT !.bg = bg, !.next =
                            normalizeExpense(FromInventory(LotExpense(o.e2, l.next), now), now)],
                        saved.log)

\* the facade call o on a synchronous adapter, run to its end
RunSync(o, now, ok1, ok2) ==
    LET x == [local |-> local, mem |-> mem, log |-> << >>]
    IN  CASE o.name = "getAdapter" ->
                [x |-> x, val |-> AdapterVal(adapter), thrown |-> FALSE]
          [] o.name = "adapterGet" ->
                \* LocalStorageAdapter.get<Kind>() called directly; ~ok1: getItem throws
                LET r == LocalGet(local, ns, o.kind, ~ok1)
                IN  [x |-> [x EXCEPT !.log = Append(@, Ev("call", "get", o.kind, NoItem))],
                     val |-> IF r.isArray THEN ArrVal(r.items) ELSE UndefVal,
                     thrown |-> FALSE]
          [] o.name = "adapterSave" ->
                \* LocalStorageAdapter.save<Kind>(arr) called directly; ~ok1: setItem throws
                [x |-> [x EXCEPT !.local = LocalSave(@, ns, o.kind, o.arr, ok1),
                                 !.log = Append(@, Ev("call", "save", o.kind, NoItem))],
                 val |-> UndefVal, thrown |-> FALSE]
          [] o.name = "get" -> GetSync(x, o.kind, now)
          [] o.name = "save" -> SaveSync(x, o.kind, o.arr, now, ok1)
          [] o.name = "upsertExpense" -> UpsertSync(x, o.e, now, ok1)
          [] o.name = "addExpenseFromInventory" ->
                UpsertSync(x, FromInventory(o.e, now), now, ok1)
          [] o.name \in {"addInventoryProduct", "addInventoryMovement"} ->
                AddSync(x, o.kind, o.e, now, ok1)
          [] o.name = "addInventoryLot" -> AddLotSync(x, o.e, o.e2, now, ok1, ok2)

(* ------------------------- the remote service -------------------------- *)
\* GET <kind>: the collection; POST <kind>/bulk: replaces it and echoes it
ServerList(store, kind) == store[kind]
ServerBulkReplace(store, kind, items) == [store EXCEPT ![kind] = JsonItems(items)]

\* POST/PUT of one product or sale: the service's copy of the record
ServerItem(p) == [JsonItem(p) EXCEPT !.srv = TRUE]
ServerItemApply(store, kind, req) ==
    LET it == ServerItem(req.item)
        key == safeStr(NaturalId(kind, req.item))
        hits == {i \in 1..Len(store[kind]) : safeStr(NaturalId(kind, store[kind][i])) = key}
    IN  IF req.what = "POST" THEN [store EXCEPT ![kind] = Append(@, it)]
        ELSE [store EXCEPT ![kind] = [i \in 1..Len(@) |-> IF i \in hits THEN it ELSE @[i]]]

(* ------------------------------ history -------------------------------- *)
\* the collections of the bound adapter's backing store
HistKinds == {"expenses", "inventoryLots", "inventoryMovements", "inventoryProducts",
              "employees", "sales"}
View(ad, ls, rm, mm) ==
    [k \in HistKinds |->
        IF ad = "Local" THEN readJson(ls, ns, KEY[k], FALSE)
        ELSE IF ad = "Api" THEN rm[k]
        ELSE IF ad = "Custom" THEN mm[k] ELSE << >>]
EmptyView == [k \in HistKinds |-> << >>]

\* pre/post: the store when the call started/ended; seen: the list its upsert
\* read; lot: the lot it added; ovl: another caller's write landed during it;
\* wfail1/wfail2: its first/second local write failed; raced: another caller
\* wrote the expenses between this call's read and its write, lost being the
\* record that caller upserted
\* bound: the adapter bound when the call started; resps: the outcome of each
\* item request of a save loop ("item", "noitem" or "fail")
NoHist == [pre |-> EmptyView, post |-> EmptyView, seen |-> << >>, lot |-> NoItem,
           ovl |-> FALSE, wfail1 |-> FALSE, wfail2 |-> FALSE,
           raced |-> FALSE, lost |-> NoItem, bound |-> "none", resps |-> << >>]

Waiting == {"read_wait", "write_wait", "item_wait"}

\* a write by caller c landed: every other call in flight overlaps it
MarkOvl(h, c, landed) ==
    [d \in Callers |->
        IF d # c /\ landed /\ pc[d] \in Waiting THEN [h[d] EXCEPT !.ovl = TRUE] ELSE h[d]]

(* ------------------------------ actions -------------------------------- *)
\* the store behind the adapter a pending request was made through
StoreVia(ad) == IF ad = "Api" THEN remote ELSE mem

\* Date.now() advances
Tick ==
    /\ clock < MaxClock
    /\ clock' = clock + 1
    /\ UNCHANGED <<adapter, custom, win, ns, calls, local, remote, mem,
                   pc, op, loc, ret, log, hist>>

\* getAdapter(), lines 45-52: the bound adapter, else window.ApiAdapter, else none
ResolveAdapter(ad, w) == IF ad # "none" THEN ad ELSE IF w.api THEN "Api" ELSE "none"

\* caller c calls the facade operation o
CallOp(c, o) ==
    /\ pc[c] = "idle"
    /\ calls < MaxCalls
    /\ calls' = calls + 1
    /\ op' = [op EXCEPT ![c] = o]
    /\ LET ad == ResolveAdapter(adapter, win)
           pre == View(ad, local, remote, mem)
           lot == IF o.name = "addInventoryLot" THEN WithId(o.e, clock) ELSE NoItem
           h0 == [NoHist EXCEPT !.pre = pre, !.post = pre, !.lot = lot, !.bound = adapter]
       IN  /\ adapter' = ad
           /\ IF ad = "none"
              THEN /\ pc' = [pc EXCEPT ![c] = "done"]
                   /\ ret' = [ret EXCEPT ![c] = Thrown("No storage adapter available")]
                   /\ loc' = [loc EXCEPT ![c] = NoLoc]
                   /\ log' = [log EXCEPT ![c] = << >>]
                   /\ hist' = [hist EXCEPT ![c] = h0]
                   /\ UNCHANGED <<local, remote, mem>>
              ELSE IF IsAsync(ad)
              THEN LET cs == StartAsync(ad, o, clock)
                   IN  /\ pc' = [pc EXCEPT ![c] = cs.pc]
                       /\ ret' = [ret EXCEPT ![c] = cs.ret]
                       /\ loc' = [loc EXCEPT ![c] = cs.loc]
                       /\ log' = [log EXCEPT ![c] = cs.log]
                       /\ hist' = [hist EXCEPT ![c] = h0]
                       /\ UNCHANGED <<local, remote, mem>>
              ELSE \E ok1, ok2 \in BOOLEAN :
                   /\ ok1 \/ o.name \notin {"get", "getAdapter"}
                   /\ ok2 \/ (o.name = "addInventoryLot" /\ o.e2.obj)
                   /\ LET r == RunSync(o, clock, ok1, ok2)
                      IN  /\ local' = r.x.local
                          /\ mem' = r.x.mem
                          /\ UNCHANGED remote
                          /\ pc' = [pc EXCEPT ![c] = "done"]
                          /\ ret' = [ret EXCEPT ![c] =
                                 IF r.thrown THEN Thrown("TypeError") ELSE Immediate(r.val)]
                          /\ loc' = [loc EXCEPT ![c] = NoLoc]
                          /\ log' = [log EXCEPT ![c] = r.x.log]
                          /\ hist' = [MarkOvl(hist, c, o.name \notin {"get", "getAdapter"}) EXCEPT ![c] =
                                 [h0 EXCEPT !.post = View(ad, r.x.local, remote, r.x.mem),
                                            !.wfail1 = ~ok1, !.wfail2 = ~ok2]]
    /\ UNCHANGED <<custom, win, ns, clock>>

\* the response to caller c's read request arrives
ReadResp(c, r) ==
    /\ pc[c] = "read_wait"
    /\ IF jsonFails(r)
       THEN /\ pc' = [pc EXCEPT ![c] = "done"]
            /\ ret' = [ret EXCEPT ![c] = Rejected("HTTP error")]
            /\ hist' = [hist EXCEPT ![c].post = View(adapter, local, remote, mem)]
            /\ UNCHANGED <<loc, log>>
       ELSE LET items == ServerList(StoreVia(loc[c].via), loc[c].kind)
                cs == Chain(ThenAsync(adapter, op[c], loc[c], log[c], items, clock))
            IN  /\ pc' = [pc EXCEPT ![c] = cs.pc]
                /\ ret' = [ret EXCEPT ![c] = cs.ret]
                /\ loc' = [loc EXCEPT ![c] = cs.loc]
                /\ log' = [log EXCEPT ![c] = cs.log]
                /\ hist' = [hist EXCEPT
                       ![c].seen = IF loc[c].phase = "upsert"
                                   THEN MapNormalize(items, clock) ELSE @,
                       ![c].post = View(adapter, local, remote, mem)]
    /\ UNCHANGED <<adapter, custom, win, ns, clock, calls, local, remote, mem, op>>

\* the response to caller c's bulk write request arrives
WriteResp(c, r) ==
    /\ pc[c] = "write_wait"
    /\ pc' = [pc EXCEPT ![c] = "done"]
    /\ IF jsonFails(r)
       THEN /\ ret' = [ret EXCEPT ![c] = Rejected("HTTP error")]
            /\ hist' = [hist EXCEPT ![c].post = View(adapter, local, remote, mem)]
            /\ UNCHANGED <<remote, mem>>
       ELSE LET st == ServerBulkReplace(StoreVia(loc[c].via), loc[c].kind, loc[c].payload)
                rm == IF loc[c].via = "Api" THEN st ELSE remote
                mm == IF loc[c].via = "Api" THEN mem ELSE st
            IN  /\ remote' = rm
                /\ mem' = mm
                /\ ret' = [ret EXCEPT ![c] = Resolved(ArrVal(ServerList(st, loc[c].kind)))]
                /\ hist' = [d \in Callers |->
                       IF d = c THEN [hist[c] EXCEPT !.post = View(adapter, local, rm, mm)]
                       ELSE IF pc[d] = "write_wait" /\ loc[d].kind = loc[c].kind
                       THEN [hist[d] EXCEPT !.ovl = TRUE, !.raced = TRUE, !.lost = loc[c].next]
                       ELSE MarkOvl(hist, c, TRUE)[d]]
    /\ UNCHANGED <<adapter, custom, win, ns, clock, calls, local, op, loc, log>>

\* the response to the lots write that caller c's addInventoryLot left behind
\* arrives (line 171: saveLotsRes is neither awaited nor returned)
BgWriteResp(c, r) ==
    /\ loc[c].bg.st = "pending"
    /\ IF jsonFails(r)
       THEN /\ loc' = [loc EXCEPT ![c].bg.st = "failed"]
            /\ UNCHANGED <<remote, mem, hist>>
       ELSE LET bg == loc[c].bg
                st == ServerBulkReplace(StoreVia(bg.via), bg.kind, bg.payload)
                rm == IF bg.via = "Api" THEN st ELSE remote
                mm == IF bg.via = "Api" THEN mem ELSE st
            IN  /\ remote' = rm
                /\ mem' = mm
                /\ loc' = [loc EXCEPT ![c].bg.st = "ok"]
                /\ hist' = [MarkOvl(hist, c, TRUE) EXCEPT
                               ![c].post = View(adapter, local, rm, mm)]
    /\ UNCHANGED <<adapter, custom, win, ns, clock, calls, local, pc, op, ret, log>>

\* the response to the item request of caller c's saveInventoryProducts /
\* saveSales loop arrives (lines 123-149, 195-221); withItem: the body has an item
MutItemOutAbort(p, r, withItem, out) == IF jsonFails(r) THEN out ELSE Append(out, p)
ItemOut(p, r, withItem, out) ==
    Append(out, IF ~jsonFails(r) /\ withItem THEN ServerItem(p) ELSE p)

ItemResp(c, r, withItem) ==
    /\ pc[c] = "item_wait"
    /\ LET l == loc[c]
           it == l.payload[l.idx]
           out == ItemOut(AsObject(it), r, withItem, l.out)
       IN  /\ remote' = IF jsonFails(r) THEN remote
                        ELSE ServerItemApply(remote, l.kind, ItemReq(l.kind, it))
           /\ IF l.idx < Len(l.payload)
              THEN /\ loc' = [loc EXCEPT ![c].idx = l.idx + 1, ![c].out = out]
                   /\ log' = [log EXCEPT ![c] = Append(@, ItemReq(l.kind, l.payload[l.idx + 1]))]
                   /\ UNCHANGED <<pc, ret>>
              ELSE /\ loc' = [loc EXCEPT ![c].out = out]
                   /\ pc' = [pc EXCEPT ![c] = "done"]
                   /\ ret' = [ret EXCEPT ![c] = Resolved(ArrVal(out))]
                   /\ UNCHANGED log
           /\ hist' = [MarkOvl(hist, c, ~jsonFails(r)) EXCEPT
                          ![c].post = View(adapter, local, remote', mem),
                          ![c].resps = Append(@, IF jsonFails(r) THEN "fail"
                                                 ELSE IF withItem THEN "item" ELSE "noitem")]
    /\ UNCHANGED <<adapter, custom, win, ns, clock, calls, local, mem, op>>

\* the caller takes the result; its call is over once none of its requests
\* is in flight
Return(c) ==
    /\ pc[c] = "done"
    /\ loc[c].bg.st # "pending"
    /\ pc' = [pc EXCEPT ![c] = "idle"]
    /\ op' = [op EXCEPT ![c] = NoOp]
    /\ loc' = [loc EXCEPT ![c] = NoLoc]
    /\ ret' = [ret EXCEPT ![c] = NoRet]
    /\ log' = [log EXCEPT ![c] = << >>]
    /\ hist' = [hist EXCEPT ![c] = NoHist]
    /\ UNCHANGED <<adapter, custom, win, ns, clock, calls, local, remote, mem>>

(* ------------------- composite operations (Spec) ----------------------- *)
\* window.__storage_ns: unset, blank, a tenant name, the name with a space before it
Markers == {Undef, Str(<<" ">>), Str(<<"a">>), Str(<<" ", "a">>)}
LocalKeys == {nsKey(m, KEY[k]) : m \in Markers, k \in StoredKinds}

TagOf(c) == IF c = "c1" THEN 1 ELSE 2

\* what the stores hold at the start: a canonical record and a legacy one
\* (numeric id, alias origin, no origin_ref, no created_at)
StoredCanonical == Item(Str(<<"1">>), Undef, Undef, "manual", NullRef, Num(1), 0)
StoredLegacy == Item(Num(2), Undef, Undef, "Desde Inventario", NoRef, Undef, 0)
InitExpenses == {<< >>, <<StoredCanonical>>, <<StoredCanonical, StoredLegacy>>}
StoredLot == Item(Str(<<"1">>), Undef, Num(1), "", NoRef, Undef, 0)
InitLots == {<< >>, <<StoredLot>>}

ExpenseIds == {Str(<< >>), Num(0), Num(1), Str(<<"2">>)}
ExpenseInputs(c) ==
    {Item(id, Undef, Undef, "", NoRef, Undef, TagOf(c)) : id \in ExpenseIds} \cup {NonObj}
LotInputs(c) ==
    {Item(Undef, Undef, Num(1), "", NoRef, Undef, TagOf(c)),
     Item(Str(<<"1">>), Undef, Undef, "", NoRef, Undef, TagOf(c))}
LotExpenseInputs(c) ==
    {NoItem} \cup {Item(id, Undef, Undef, "", NoRef, Undef, TagOf(c)) : id \in {Undef, Str(<<"2">>)}}

UpsertOps(c) ==
    {Op("upsertExpense", "expenses", e, NoItem, NotArr) : e \in ExpenseInputs(c)}
LotOps(c) ==
    {Op("addInventoryLot", "inventoryLots", l, e, NotArr) :
        l \in LotInputs(c), e \in LotExpenseInputs(c)}

InitCallers ==
    /\ pc = [c \in Callers |-> "idle"]
    /\ op = [c \in Callers |-> NoOp]
    /\ loc = [c \in Callers |-> NoLoc]
    /\ ret = [c \in Callers |-> NoRet]
    /\ log = [c \in Callers |-> << >>]
    /\ hist = [c \in Callers |-> NoHist]

NoCustom == [async |-> FALSE, caps |-> LocalCaps]
EmptyLocal == [k \in LocalKeys |-> Missing]
EmptyStore == [k \in Kinds |-> << >>]

\* the Local or the Remote adapter is bound; its store holds exps and lots
InitStores(exps, lots) ==
    /\ adapter \in {"Local", "Api"}
    /\ custom = NoCustom
    /\ win = [api |-> TRUE, local |-> TRUE]
    /\ ns = Undef
    /\ clock = 1
    /\ calls = 0
    /\ local = IF adapter = "Local"
               THEN [EmptyLocal EXCEPT ![nsKey(ns, KEY.expenses)] = Stored(exps),
                                       ![nsKey(ns, KEY.inventoryLots)] = Stored(lots)]
               ELSE EmptyLocal
    /\ remote = IF adapter = "Api"
                THEN [EmptyStore EXCEPT !.expenses = exps, !.inventoryLots = lots]
                ELSE EmptyStore
    /\ mem = EmptyStore
    /\ InitCallers

ReadResponse == \E c \in Callers : \E r \in Responses : ReadResp(c, r)
WriteResponse == \E c \in Callers : \E r \in Responses : WriteResp(c, r)
Returns == \E c \in Callers : Return(c)

\* Spec: callers upsert expenses
Init == \E exps \in InitExpenses : InitStores(exps, << >>)
CallUpsert == \E c \in Callers : \E o \in UpsertOps(c) : CallOp(c, o)
Next == Tick \/ CallUpsert \/ ReadResponse \/ WriteResponse \/ Returns
Spec == Init /\ [][Next]_vars

\* SpecLot: callers add inventory lots, with or without a linked expense
InitLot == \E exps \in {<< >>, <<StoredCanonical>>}, lots \in InitLots : InitStores(exps, lots)
CallLot == \E c \in Callers : \E o \in LotOps(c) : CallOp(c, o)
NextLot == Tick \/ CallLot \/ ReadResponse \/ WriteResponse \/ Returns
SpecLot == InitLot /\ [][NextLot]_vars

\* SpecLotAsync: the same calls on an injected promise-returning adapter that
\* has every operation and sends each write as one request
LotAsyncOps(c) == {o \in LotOps(c) : o.e.id = Undef /\ (o.e2.obj => o.e2.id = Undef)}
InitLotAsync ==
    /\ adapter = "Custom"
    /\ custom = [async |-> TRUE, caps |-> ApiCaps]
    /\ win = [api |-> TRUE, local |-> TRUE]
    /\ ns = Undef
    /\ clock = 1
    /\ calls = 0
    /\ local = EmptyLocal
    /\ remote = EmptyStore
    /\ mem \in {[EmptyStore EXCEPT !.inventoryLots = lots] : lots \in InitLots}
    /\ InitCallers
CallLotAsync == \E c \in Callers : \E o \in LotAsyncOps(c) : CallOp(c, o)
BgWriteResponse == \E c \in Callers : \E r \in Responses : BgWriteResp(c, r)
NextLotAsync ==
    Tick \/ CallLotAsync \/ ReadResponse \/ WriteResponse \/ BgWriteResponse \/ Returns
SpecLotAsync == InitLotAsync /\ [][NextLotAsync]_vars

(* ---------------- capability probing (SpecFacade) ---------------------- *)
\* an adapter handed to setAdapter: synchronous or promise-returning, with
\* every required operation and some of the optional ones
OptionalGets == {o \in OptionalOps : o[1] = "get"}
OptionalSaves == {o \in OptionalOps : o[1] = "save"}
CustomCapSets == {ApiCaps, ApiCaps \ OptionalOps, ApiCaps \ OptionalGets, ApiCaps \ OptionalSaves}
CustomShapes == [async : BOOLEAN, caps : CustomCapSets]

StoredMovement == Item(Str(<<"1">>), Undef, Num(1), "", NoRef, Undef, 0)
StoredEmployee == Item(Str(<<"1">>), Undef, Undef, "", NoRef, Undef, 0)
FacadeStore ==
    [EmptyStore EXCEPT !.expenses = <<StoredCanonical>>,
                       !.inventoryMovements = <<StoredMovement>>,
                       !.employees = <<StoredEmployee>>,
                       !.cashCounts = <<StoredEmployee>>,
                       !.overdue = <<StoredEmployee>>]

FacadeItem(c) == Item(Undef, Undef, Num(1), "", NoRef, Undef, TagOf(c))
FacadeOps(c) ==
    {Op("get", k, NoItem, NoItem, NotArr) : k \in FacadeGetKinds}
    \cup {Op("save", k, NoItem, NoItem, a) : k \in FacadeSaveKinds,
                                             a \in {NotArr, Arr(<<FacadeItem(c)>>)}}
    \cup {Op("addInventoryMovement", "inventoryMovements", FacadeItem(c), NoItem, NotArr),
          Op("addInventoryProduct", "inventoryProducts", FacadeItem(c), NoItem, NotArr)}

InitFacade ==
    /\ adapter \in {"Local", "Api", "Custom"}
    /\ custom \in IF adapter = "Custom" THEN CustomShapes ELSE {NoCustom}
    /\ win = [api |-> TRUE, local |-> TRUE]
    /\ ns = Undef
    /\ clock = 1
    /\ calls = 0
    /\ local = IF adapter = "Local"
               THEN [key \in LocalKeys |->
                        IF \E k \in StoredKinds : key = nsKey(ns, KEY[k]) /\ FacadeStore[k] # << >>
                        THEN Stored(FacadeStore[CHOOSE k \in StoredKinds : key = nsKey(ns, KEY[k])])
                        ELSE Missing]
               ELSE EmptyLocal
    /\ remote = IF adapter = "Api" THEN FacadeStore ELSE EmptyStore
    /\ mem = IF adapter = "Custom" THEN FacadeStore ELSE EmptyStore
    /\ InitCallers

\* only a response that arrived well can carry an item
ItemResponse ==
    \E c \in Callers : \E r \in Responses : \E withItem \in BOOLEAN :
        (jsonFails(r) => ~withItem) /\ ItemResp(c, r, withItem)
CallFacade == \E c \in Callers : \E o \in FacadeOps(c) : CallOp(c, o)
NextFacade == CallFacade \/ ReadResponse \/ WriteResponse \/ ItemResponse \/ Returns
SpecFacade == InitFacade /\ [][NextFacade]_vars

(* ------------- the Remote adapter's item-wise saves (SpecApi) ---------- *)
\* the longest collection handed to a save
MaxBatch == 2

StoredProduct == Item(Str(<<"1">>), Undef, Undef, "", NoRef, Undef, 0)
StoredSale == Item(Undef, Str(<<"1">>), Undef, "", NoRef, Undef, 0)
ApiStore ==
    [EmptyStore EXCEPT !.inventoryProducts = <<StoredProduct>>,
                       !.sales = <<StoredSale>>,
                       !.inventoryLots = <<StoredLot>>,
                       !.inventoryMovements = <<StoredMovement>>]

\* a record the service knows, a new record, and a value that is not a record
ApiItems ==
    {Item(Str(<<"1">>), Str(<<"1">>), Undef, "", NoRef, Undef, 1),
     Item(Str(<<" ">>), Undef, Undef, "", NoRef, Undef, 2),
     NonObj}
RECURSIVE Batches(_)
Batches(n) ==
    IF n = 0 THEN {<< >>}
    ELSE Batches(n - 1) \cup {Append(b, it) : b \in {x \in Batches(n - 1) : Len(x) = n - 1},
                                              it \in ApiItems}
\* products are saved in collections of up to MaxBatch items, the other kinds
\* in collections of at most one
ApiOps ==
    {Op("adapterSave", "inventoryProducts", NoItem, NoItem, a) :
        a \in {NotArr} \cup {Arr(b) : b \in Batches(MaxBatch)}}
    \cup {Op("adapterSave", k, NoItem, NoItem, a) :
            k \in {"sales"} \cup ApiNoopKinds, a \in {NotArr} \cup {Arr(b) : b \in Batches(1)}}

InitApi ==
    /\ adapter = "Api"
    /\ custom = NoCustom
    /\ win = [api |-> TRUE, local |-> TRUE]
    /\ ns = Undef
    /\ clock = 1
    /\ calls = 0
    /\ local = EmptyLocal
    /\ remote = ApiStore
    /\ mem = EmptyStore
    /\ InitCallers

CallApi == \E c \in Callers : \E o \in ApiOps : CallOp(c, o)
NextApi == CallApi \/ ItemResponse \/ Returns
SpecApi == InitApi /\ [][NextApi]_vars

(* ------------------- adapter resolution (SpecResolve) ------------------ *)
\* setAdapter(adapter), lines 41-43; "none" stands for null/undefined.  The two
\* known adapters can only be handed over once their script has loaded.
SetAdapter(a) ==
    /\ a = "Api" => win.api
    /\ a = "Local" => win.local
    /\ adapter' = a
    /\ UNCHANGED <<custom, win, ns, clock, calls, local, remote, mem,
                   pc, op, loc, ret, log, hist>>

ResolveOps == {Op("getAdapter", "", NoItem, NoItem, NotArr),
               Op("get", "expenses", NoItem, NoItem, NotArr)}

\* nothing is bound at first (_adapter: null, line 39); win: which adapter
\* scripts the page has loaded
InitResolve ==
    /\ adapter = "none"
    /\ custom \in {sh \in CustomShapes : sh.caps = ApiCaps}
    /\ win \in [api : BOOLEAN, local : BOOLEAN]
    /\ ns = Undef
    /\ clock = 1
    /\ calls = 0
    /\ local = [EmptyLocal EXCEPT ![nsKey(ns, KEY.expenses)] = Stored(<<StoredCanonical>>)]
    /\ remote = [EmptyStore EXCEPT !.expenses = <<StoredCanonical>>]
    /\ mem = [EmptyStore EXCEPT !.expenses = <<StoredCanonical>>]
    /\ InitCallers

SetsAdapter == \E a \in {"none", "Local", "Api", "Custom"} : SetAdapter(a)
CallResolve == \E c \in Callers : \E o \in ResolveOps : CallOp(c, o)
NextResolve == SetsAdapter \/ CallResolve \/ ReadResponse \/ Returns
SpecResolve == InitResolve /\ [][NextResolve]_vars

(* ------------ composite calls on the Local adapter (SpecSync) ---------- *)
\* upserts and adds on the Local adapter, over a store that holds records of
\* each kind; items come with an id or without one
SyncItems(c) ==
    {FacadeItem(c), Item(Str(<<"2">>), Undef, Undef, "", NoRef, Undef, TagOf(c))}
SyncOps(c) ==
    UpsertOps(c) \cup LotOps(c)
    \cup {Op(n, IF n = "addInventoryProduct" THEN "inventoryProducts" ELSE "inventoryMovements",
             e, NoItem, NotArr) :
            n \in {"addInventoryProduct", "addInventoryMovement"}, e \in SyncItems(c)}

InitSync ==
    /\ adapter = "Local"
    /\ custom = NoCustom
    /\ win = [api |-> TRUE, local |-> TRUE]
    /\ ns = Undef
    /\ clock = 1
    /\ calls = 0
    /\ \E exps \in InitExpenses, lots \in InitLots :
          local = [EmptyLocal EXCEPT
                      ![nsKey(ns, KEY.expenses)] = Stored(exps),
                      ![nsKey(ns, KEY.inventoryLots)] = Stored(lots),
                      ![nsKey(ns, KEY.inventoryProducts)] = Stored(<<StoredProduct>>),
                      ![nsKey(ns, KEY.inventoryMovements)] = Stored(<<StoredMovement>>)]
    /\ remote = EmptyStore
    /\ mem = EmptyStore
    /\ InitCallers

CallSync == \E c \in Callers : \E o \in SyncOps(c) : CallOp(c, o)
NextSync == Tick \/ CallSync \/ Returns
SpecSync == InitSync /\ [][NextSync]_vars

(* -------------- expenses through the facade (SpecCanon) ---------------- *)
\* the store holds a canonical record, a legacy record, and an entry that is
\* not a record; callers hand over bare, aliased and half-filled expenses
StoredJunk == NonObj
CanonStore == [EmptyStore EXCEPT !.expenses = <<StoredCanonical, StoredLegacy, StoredJunk>>]
CanonInputs ==
    {Item(Undef, Undef, Undef, "", NoRef, Undef, 1),
     Item(Str(<<"2">>), Undef, Undef, "Inventory", Ref(Num(1), Undef, Null), Str(<<"5">>), 1),
     NonObj}
CanonOps ==
    {Op("get", "expenses", NoItem, NoItem, NotArr)}
    \cup {Op("save", "expenses", NoItem, NoItem, a) : a \in {NotArr} \cup {Arr(<<e>>) : e \in CanonInputs}}
    \cup {Op(n, "expenses", e, NoItem, NotArr) :
            n \in {"upsertExpense", "addExpenseFromInventory"}, e \in CanonInputs}

InitCanon ==
    /\ adapter \in {"Local", "Api", "Custom"}
    /\ custom \in IF adapter = "Custom" THEN {sh \in CustomShapes : sh.caps = ApiCaps}
                  ELSE {NoCustom}
    /\ win = [api |-> TRUE, local |-> TRUE]
    /\ ns = Undef
    /\ clock = 1
    /\ calls = 0
    /\ local = IF adapter = "Local"
               THEN [EmptyLocal EXCEPT ![nsKey(ns, KEY.expenses)] = Stored(CanonStore.expenses)]
               ELSE EmptyLocal
    /\ remote = IF adapter = "Api" THEN CanonStore ELSE EmptyStore
    /\ mem = IF adapter = "Custom" THEN CanonStore ELSE EmptyStore
    /\ InitCallers

CallCanon == \E c \in Callers : \E o \in CanonOps : CallOp(c, o)
NextCanon == Tick \/ CallCanon \/ ReadResponse \/ WriteResponse \/ Returns
SpecCanon == InitCanon /\ [][NextCanon]_vars

(* ---------------------- the Normalizer (SpecNorm) ---------------------- *)
\* normalizeExpense applied to an input, and applied again to its own result
\* at a later reading of the clock.  loc.out holds the results, loc.idx the
\* clock at the last application.
NormOrigins == {"", "manual", "inventory", "Inventory", "Desde Inventario",
                "InventoryOrigin", "INVENTORY", "otro"}
\* every origin on a bare record, every origin_ref and created_at on a record
\* of one alias origin, and a value that is not a record
NormInputs ==
    {Item(Undef, Undef, Undef, o, NoRef, Undef, 0) : o \in NormOrigins}
    \cup {Item(Undef, Undef, Undef, "Inventory", r, t, 0) :
            r \in {NoRef, Ref(Num(1), Undef, Null)},
            t \in {Undef, Num(0), Str(<<"5">>)}}
    \cup {NonObj}

Normalize(c, x) ==
    /\ pc[c] = "idle"
    /\ calls < MaxCalls
    /\ calls' = calls + 1
    /\ pc' = [pc EXCEPT ![c] = "done"]
    /\ op' = [op EXCEPT ![c] = Op("normalizeExpense", "expenses", x, NoItem, NotArr)]
    /\ loc' = [loc EXCEPT ![c] = [NoLoc EXCEPT !.out = <<normalizeExpense(x, clock)>>,
                                                !.idx = clock]]
    /\ UNCHANGED <<adapter, custom, win, ns, clock, local, remote, mem, ret, log, hist>>

Renormalize(c) ==
    /\ pc[c] = "done"
    /\ op[c].name = "normalizeExpense"
    /\ Len(loc[c].out) = 1
    /\ loc' = [loc EXCEPT ![c].out = Append(@, normalizeExpense(@[1], clock)),
                          ![c].idx = clock]
    /\ UNCHANGED <<adapter, custom, win, ns, clock, calls, local, remote, mem,
                   pc, op, ret, log, hist>>

InitNorm == InitStores(<< >>, << >>) /\ adapter = "Local"
Normalizes == \E c \in Callers : \E x \in NormInputs : Normalize(c, x)
Renormalizes == \E c \in Callers : Renormalize(c)
NextNorm == Tick \/ Normalizes \/ Renormalizes \/ Returns
SpecNorm == InitNorm /\ [][NextNorm]_vars

(* --------------------- the Local adapter (SpecLocal) ------------------- *)
\* the page switches the tenant namespace marker
SetNs(m) ==
    /\ m # ns
    /\ ns' = m
    /\ UNCHANGED <<adapter, custom, win, clock, calls, local, remote, mem,
                   pc, op, loc, ret, log, hist>>

LocalItem == Item(Undef, Undef, Undef, "", NoRef, Undef, 1)
LocalOps ==
    {Op("adapterGet", k, NoItem, NoItem, NotArr) : k \in {"expenses", "inventoryProducts"}}
    \cup {Op("adapterSave", "expenses", NoItem, NoItem, a) :
            a \in {NotArr, Arr(<< >>), Arr(<<LocalItem>>)}}
    \cup {Op("adapterSave", "inventoryProducts", NoItem, NoItem, Arr(<<LocalItem>>)),
          Op("upsertExpense", "expenses", LocalItem, NoItem, NotArr),
          Op("addInventoryProduct", "inventoryProducts", LocalItem, NoItem, NotArr)}

\* what localStorage holds at first: under no namespace an expenses value of
\* any kind and a product; under namespace "a" expenses or nothing
InitLocal ==
    /\ adapter = "Local"
    /\ custom = NoCustom
    /\ win = [api |-> TRUE, local |-> TRUE]
    /\ ns = Undef
    /\ clock = 1
    /\ calls = 0
    /\ \E v \in {Missing, StoredEmpty, StoredNonArray, StoredGarbage, Stored(<<StoredCanonical>>)},
          w \in {Missing, Stored(<<StoredLegacy>>)} :
          local = [EmptyLocal EXCEPT
                      ![nsKey(Undef, KEY.expenses)] = v,
                      ![nsKey(Undef, KEY.inventoryProducts)] = Stored(<<StoredProduct>>),
                      ![nsKey(Str(<<"a">>), KEY.expenses)] = w]
    /\ remote = EmptyStore
    /\ mem = EmptyStore
    /\ InitCallers

SetsNs == \E m \in Markers : SetNs(m)
CallLocal == \E c \in Callers : \E o \in LocalOps : CallOp(c, o)
NextLocal == SetsNs \/ CallLocal \/ Returns
SpecLocal == InitLocal /\ [][NextLocal]_vars

(* ------------------------------ properties ----------------------------- *)
Range(sq) == {sq[i] : i \in 1..Len(sq)}
Times == 1..MaxClock
Done(c, name) == pc[c] = "done" /\ op[c].name = name
\* the call ran to its end with no failure and no other caller's write landed during it
Clean(c) == ~hist[c].ovl /\ ~hist[c].wfail1 /\ ~hist[c].wfail2 /\ ret[c].st = "ok"
IsCanonical(x) == \E t \in Times : normalizeExpense(x, t) = x
\* the id upsertExpense was called with, as the code compares it
GivenId(e) == safeStr(AsObject(e).id)
HasId(e) == Truthy(AsObject(e).id)
\* the expense as upsertExpense stores it when called at some time t
StoredForm(e, id, t) == [normalizeExpense(e, t) EXCEPT !.id = id]

\* C1 (the claim as stated): upsertExpense of an expense without an id leaves
\* the stored collection as the prior collection (here: one already in
\* canonical form) plus exactly one element at the end, every prior element
\* still in its place and unchanged, whatever the clock says.
C1_AppendsWhenNoId ==
    \A c \in Callers :
        (Done(c, "upsertExpense") /\ Clean(c) /\ ~HasId(op[c].e)
            /\ \A x \in Range(hist[c].pre.expenses) : IsCanonical(x))
        => LET pre == hist[c].pre.expenses
               post == hist[c].post.expenses
           IN  /\ Len(post) = Len(pre) + 1
               /\ \A i \in 1..Len(pre) : post[i] = pre[i]

\* the first position of the prior collection whose id matches, 0 if none
MatchAt(c) == FindIndex(hist[c].pre.expenses, GivenId(op[c].e))
Replaces(c) == Done(c, "upsertExpense") /\ Clean(c) /\ HasId(op[c].e) /\ MatchAt(c) > 0

\* C2 (the claim as stated): upsertExpense of an expense whose id matches an
\* existing entry leaves the collection with the same length and order of ids,
\* the normalized new expense at the matched position and every other position
\* unchanged.
C2_ReplacesOthersUnchanged ==
    \A c \in Callers :
        Replaces(c)
        => LET pre == hist[c].pre.expenses
               post == hist[c].post.expenses
           IN  /\ Len(post) = Len(pre)
               /\ \A j \in 1..Len(pre) : safeStr(post[j].id) = safeStr(pre[j].id)
               /\ \E t \in Times : post[MatchAt(c)] = StoredForm(op[c].e, GivenId(op[c].e), t)
               /\ \A j \in 1..Len(pre) : j # MatchAt(c) => post[j] = pre[j]

\* C2 (amended): as above, but every other position holds the normalized form
\* of the entry it held before (the same entry when that was already canonical).
C2_ReplacesInPlace ==
    \A c \in Callers :
        Replaces(c)
        => LET pre == hist[c].pre.expenses
               post == hist[c].post.expenses
           IN  /\ Len(post) = Len(pre)
               /\ \A j \in 1..Len(pre) : safeStr(post[j].id) = safeStr(pre[j].id)
               /\ \E t \in Times : post[MatchAt(c)] = StoredForm(op[c].e, GivenId(op[c].e), t)
               /\ \A j \in 1..Len(pre) :
                     j # MatchAt(c) => \E t \in Times : post[j] = normalizeExpense(pre[j], t)
               /\ \A j \in 1..Len(pre) :
                     (j # MatchAt(c) /\ IsCanonical(pre[j])) => post[j] = pre[j]

\* C2 witness: a replacement at the first position of a two-element collection
\* whose second entry was stored in a legacy form and is now normalized
C2_Witness ==
    \E c \in Callers :
        /\ Replaces(c)
        /\ MatchAt(c) = 1
        /\ Len(hist[c].pre.expenses) = 2
        /\ hist[c].post.expenses[1] # hist[c].pre.expenses[1]
        /\ hist[c].post.expenses[2] # hist[c].pre.expenses[2]

\* caller d wrote last in a race: another caller's upsert of a different id
\* landed between d's read and d's write, and d's write landed too
WonRace(d) ==
    /\ Done(d, "upsertExpense")
    /\ hist[d].raced
    /\ ret[d].st = "ok"
    /\ hist[d].lost.id # loc[d].next.id

\* C4: when two upserts of distinct ids both read before either writes, the
\* stored collection after the later write is exactly what the later writer
\* sent, built from the list it had read: it holds the later writer's entity,
\* nothing that was not in that list, and so not the earlier writer's entity;
\* both callers' promises resolve.
C4_LastWriterWins ==
    \A d \in Callers :
        WonRace(d)
        => LET post == hist[d].post.expenses
               seen == hist[d].seen
               mine == loc[d].next
           IN  /\ ret[d].mode = "deferred"
               /\ post = loc[d].payload
               /\ mine \in Range(post)
               /\ Len(post) = Len(seen) + (IF FindIndex(seen, mine.id) > 0 THEN 0 ELSE 1)
               /\ \A x \in Range(post) : x = mine \/ x \in Range(seen)
               /\ hist[d].lost \notin Range(seen) => hist[d].lost \notin Range(post)

\* C4 witness: the race happened and the earlier writer's entity is gone
C4_Witness ==
    \E d \in Callers :
        /\ WonRace(d)
        /\ hist[d].lost \notin Range(hist[d].seen)
        /\ hist[d].lost \notin Range(hist[d].post.expenses)

\* the ids the linked expense of call c can be stored under: the one given, or
\* a timestamp
LinkedIds(c) ==
    IF HasId(op[c].e2) THEN {GivenId(op[c].e2)} ELSE {Str(StrOfNat(t)) : t \in Times}
LotWithExpense(c) == Done(c, "addInventoryLot") /\ op[c].e2.obj
LastOf(sq) == sq[Len(sq)]

\* C3 (the claim as stated, for an expense whose id is new to the store):
\* addInventoryLot(lot, expensePayload), run to its end on either adapter with
\* nothing failing, leaves exactly one more lot and exactly one more expense,
\* the new expense having origin "inventory" and origin_ref.lot_id equal to the
\* id assigned to the lot.
C3_OneLotOneExpense ==
    \A c \in Callers :
        (LotWithExpense(c) /\ Clean(c)
            /\ \A x \in Range(hist[c].pre.expenses) : safeStr(x.id) \notin LinkedIds(c))
        => LET pre == hist[c].pre
               post == hist[c].post
           IN  /\ Len(post.inventoryLots) = Len(pre.inventoryLots) + 1
               /\ Len(post.expenses) = Len(pre.expenses) + 1
               /\ LastOf(post.expenses).origin = "inventory"
               /\ LastOf(post.expenses).origin_ref.lot_id = hist[c].lot.id

\* the facade's lot write went through: saveInventoryLots was called and did not fail
LotWriteSucceeded(c) ==
    /\ \E i \in 1..Len(log[c]) : log[c][i] = Ev("call", "save", "inventoryLots", NoItem)
    /\ ~hist[c].wfail1
\* the expense step after it failed: the local write, or the remote read or write
ExpenseStepFailed(c) == hist[c].wfail2 \/ ret[c].st = "err"

\* C5 (the claim as stated): in addInventoryLot with an expense payload, when
\* the lot write succeeds and the expense read or write after it fails, the
\* lot stays persisted, no linked expense exists (the expenses are as before)
\* and no second lot write undoes the first.
C5_LotKeptWithoutExpense ==
    \A c \in Callers :
        (LotWithExpense(c) /\ ~hist[c].ovl /\ LotWriteSucceeded(c) /\ ExpenseStepFailed(c))
        => LET pre == hist[c].pre
               post == hist[c].post
           IN  /\ post.inventoryLots = Append(pre.inventoryLots, hist[c].lot)
               /\ post.expenses = pre.expenses
               /\ Cardinality({i \in 1..Len(log[c]) :
                      log[c][i].ev = "call" /\ log[c][i].what = "save"
                          /\ log[c][i].kind = "inventoryLots"}) = 1


(* ---- C6 ---- *)
Lacks(what, kind) == <<what, kind>> \in OptionalOps /\ <<what, kind>> \notin CapsOf(adapter)
SaveEvents(g) == SelectSeq(g, LAMBDA e : e.what \in {"save", "POST", "PUT"})

C7_ModeMatchesAdapter ==
    \A c \in Callers :
        (pc[c] # "idle" /\ ret[c].mode # "thrown") =>
            (ret[c].mode = "deferred" <=> IsAsync(adapter))

(* ---- C8 ---- *)
ItemLoop(c) == pc[c] # "idle" /\ op[c].name = "adapterSave" /\ op[c].kind \in ApiItemKinds
Reqs(c) == SelectSeq(log[c], LAMBDA e : e.ev = "req")
\* the loop's requests so far are those of the first items, in input order
RequestsInOrder(c) ==
    LET input == ItemsOf(op[c].arr)
    IN  /\ Len(Reqs(c)) <= Len(input)
        /\ \A i \in 1..Len(Reqs(c)) : Reqs(c)[i] = ItemReq(op[c].kind, input[i])
        /\ Len(Reqs(c)) = IF pc[c] = "done" THEN Len(input) ELSE Len(hist[c].resps) + 1
LoopNeverFails(c) ==
    /\ ret[c].mode = "deferred"
    /\ ret[c].st = IF pc[c] = "done" THEN "ok" ELSE "pending"
    /\ pc[c] = "done" => Len(ret[c].val.items) = Len(ItemsOf(op[c].arr))

C9_NoopSavesEcho ==
    /\ remote.inventoryLots = ApiStore.inventoryLots
    /\ remote.inventoryMovements = ApiStore.inventoryMovements
    /\ \A c \in Callers :
          (pc[c] # "idle" /\ op[c].name = "adapterSave" /\ op[c].kind \in ApiNoopKinds) =>
              /\ pc[c] = "done"
              /\ ret[c] = Resolved(ArrVal(IF op[c].arr.isArray THEN op[c].arr.items ELSE << >>))
              /\ Reqs(c) = << >>
              /\ hist[c].post = hist[c].pre

\* a lots save of one item and a movements save of a non-collection have ended
C9_Witness ==
    /\ Done("c1", "adapterSave") /\ op["c1"].kind = "inventoryLots"
    /\ Len(op["c1"].arr.items) = 1
    /\ Done("c2", "adapterSave") /\ op["c2"].kind = "inventoryMovements"
    /\ ~op["c2"].arr.isArray

(* ---- C10 ---- *)
\* the known adapters the page has loaded
Available == {a \in {"Api", "Local"} : IF a = "Api" THEN win.api ELSE win.local}

\* C10: getAdapter raises "No storage adapter available" exactly when nothing
\* is bound and no known adapter (Remote or Local) is available; with nothing
\* bound and a known adapter available it returns an available one; with an
\* adapter bound it returns that adapter.
C10_Resolution ==
    \A c \in Callers : Done(c, "getAdapter") =>
        /\ ret[c].mode = "thrown" <=> (hist[c].bound = "none" /\ Available = {})
        /\ ret[c].mode = "thrown" => ret[c].err = "No storage adapter available"
        /\ (hist[c].bound = "none" /\ Available # {}) => ret[c].val.t \in Available
        /\ hist[c].bound # "none" => ret[c] = Immediate(AdapterVal(hist[c].bound))


(* ---- C11 ---- *)
Normalized(c) == pc[c] = "done" /\ op[c].name = "normalizeExpense"

\* C11: normalizeExpense is idempotent: applied to its own result, at whatever
\* later reading of the clock, it gives that result again field for field; a
\* created_at assigned by the first application is kept by the second.
C11_NormalizeIdempotent ==
    \A c \in Callers :
        (Normalized(c) /\ Len(loc[c].out) = 2) => loc[c].out[2] = loc[c].out[1]

\* an input without a numeric created_at was normalized at time 1 and its
\* result normalized again at time 2
C11_Witness ==
    \E c \in Callers :
        /\ Normalized(c) /\ Len(loc[c].out) = 2
        /\ op[c].e.obj /\ op[c].e.created_at.t # "num"
        /\ loc[c].out[1].created_at = Num(1)
        /\ loc[c].idx = 2

(* ---- C12 ---- *)
\* C12: normalizeExpense yields origin "inventory" for the input origins
\* "inventory", "Inventory", "Desde Inventario" and "InventoryOrigin", and
\* "manual" for a missing origin and for every other value.
C12_OriginManualOrInventory ==
    \A c \in Callers :
        Normalized(c) =>
            LET given == AsObject(op[c].e).origin
                got == loc[c].out[1].origin
            IN  /\ got \in {"manual", "inventory"}
                /\ got = "inventory" <=>
                      given \in {"inventory", "Inventory", "Desde Inventario", "InventoryOrigin"}

\* an alias, an unrecognized spelling and a value that is not a record have
\* been normalized
C12_Witness ==
    /\ Normalized("c1") /\ op["c1"].e.origin = "Desde Inventario"
    /\ Normalized("c2") /\ op["c2"].e.origin = "INVENTORY"


(* ---- C13 ---- *)
\* the step in which caller c runs one of the named calls on a synchronous adapter
Ran(c, names) == pc[c] = "idle" /\ pc'[c] = "done" /\ op'[c].name \in names
\* the stored value a call of kind k by caller c reads or replaces
KeyOf(k) == nsKey(ns, KEY[k])

\* C13: a Local Adapter read hands back a collection and raises nothing; for a
\* missing key, an empty or undecodable value, a value that decodes to
\* something that is not a collection, or a store that throws, the collection
\* is empty; and the read leaves the store as it was.
C13_LocalReadNeverFails ==
    [][\A c \in Callers :
          Ran(c, {"adapterGet"}) =>
              /\ ret'[c].mode = "immediate"
              /\ ret'[c].val.t = "arr"
              /\ (hist'[c].wfail1 \/ local[KeyOf(op'[c].kind)].raw # "array")
                    => ret'[c].val.items = << >>
              /\ (~hist'[c].wfail1 /\ local[KeyOf(op'[c].kind)].raw = "array")
                    => ret'[c].val.items = local[KeyOf(op'[c].kind)].items
              /\ local' = local]_vars

\* reads have ended on an undecodable value and on a store that throws
C13_Witness ==
    /\ Done("c1", "adapterGet") /\ ~hist["c1"].wfail1
    /\ local[KeyOf(op["c1"].kind)].raw = "garbage"
    /\ Done("c2", "adapterGet") /\ hist["c2"].wfail1

(* ---- C14 ---- *)
\* C14: a successful Local Adapter save<Kind>(c) replaces the stored
\* collection: a get<Kind>() right after it returns exactly c (the empty
\* collection when c is not a collection) whatever the key held, and every
\* other stored value is unchanged.
C14_LocalSaveReplaces ==
    [][\A c \in Callers :
          (Ran(c, {"adapterSave"}) /\ ~hist'[c].wfail1) =>
              /\ LocalGet(local', ns', op'[c].kind, FALSE) =
                    Arr(IF op'[c].arr.isArray THEN op'[c].arr.items ELSE << >>)
              /\ \A key \in LocalKeys \ {KeyOf(op'[c].kind)} : local'[key] = local[key]]_vars

\* a save of something that is not a collection ended on a key that held one
C14_Witness ==
    \E c \in Callers :
        /\ Done(c, "adapterSave") /\ ~hist[c].wfail1
        /\ ~op[c].arr.isArray
        /\ hist[c].pre.expenses # << >>
        /\ hist[c].post.expenses = << >>

(* ---- C16 ---- *)
\* C16: a Local Adapter write that fails in the underlying store raises
\* nothing and leaves every stored value as it was; a facade upsert or add
\* over the Local Adapter whose write fails ends without error all the same.
C16_LocalWriteFailsSilently ==
    [][\A c \in Callers :
          (Ran(c, {"adapterSave", "upsertExpense", "addInventoryProduct"})
              /\ hist'[c].wfail1) =>
              /\ ret'[c].mode = "immediate"
              /\ local' = local]_vars

\* an upsert ended whose write failed
C16_Witness ==
    \E c \in Callers :
        /\ Done(c, "upsertExpense") /\ hist[c].wfail1
        /\ ret[c].mode = "immediate"
        /\ hist[c].post = hist[c].pre

(* ---- C17 ---- *)
\* the namespace a marker value names: none for an unset or blank marker,
\* else the marker as given / the marker with surrounding blanks removed
NamespaceAsGiven(m) ==
    IF ~Truthy(m) \/ Trim(ToStr(m).s) = << >> THEN << >> ELSE ToStr(m).s
NamespaceTrimmed(m) == IF ~Truthy(m) THEN << >> ELSE Trim(ToStr(m).s)
\* what every get<Kind>() would return while the marker is m
ReadsUnder(ls, m) == [k \in StoredKinds |-> LocalGet(ls, m, k, FALSE)]
LocalCalls == {"adapterGet", "adapterSave", "upsertExpense", "addInventoryProduct"}

\* C17 (as stated): every Local Adapter access uses the marker of that moment;
\* an operation run while the marker is m changes what is read under m only,
\* so what is read under any other marker value naming a namespace (or under
\* no namespace) is the same before and after it, and switching the marker
\* changes nothing stored.
C17_IsolatedByMarker ==
    [][/\ \A c \in Callers : Ran(c, LocalCalls) =>
              \A m \in Markers :
                  NamespaceAsGiven(m) # NamespaceAsGiven(ns)
                      => ReadsUnder(local', m) = ReadsUnder(local, m)
       /\ ns' # ns => local' = local]_vars

\* C17 (amended): the same, a namespace being the marker with surrounding
\* blanks removed: two markers that differ only by such blanks name the same
\* namespace and share its collections.
C17_IsolatedByTrimmedMarker ==
    [][/\ \A c \in Callers : Ran(c, LocalCalls) =>
              /\ \A m \in Markers :
                    NamespaceTrimmed(m) # NamespaceTrimmed(ns)
                        => ReadsUnder(local', m) = ReadsUnder(local, m)
              /\ \A m \in Markers :
                    NamespaceTrimmed(m) = NamespaceTrimmed(ns)
                        => ReadsUnder(local', m) = ReadsUnder(local', ns)
       /\ ns' # ns => local' = local]_vars

\* a save under namespace "a" ended while expenses are stored under no
\* namespace, and both collections are there, different
C17_Witness ==
    \E c \in Callers :
        /\ Done(c, "adapterSave") /\ ~hist[c].wfail1 /\ op[c].kind = "expenses"
        /\ NamespaceTrimmed(ns) = <<"a">>
        /\ hist[c].post.expenses = op[c].arr.items
        /\ LocalGet(local, Undef, "expenses", FALSE).items = <<StoredCanonical>>
        /\ LocalGet(local, ns, "expenses", FALSE).items = <<LocalItem>>

(* addInventoryLot on an asynchronous adapter *)
AboutExpenses(g) == \E i \in 1..Len(g) : g[i].kind = "expenses"
WritesExpenses(g) ==
    \E i \in 1..Len(g) : g[i].kind = "expenses" /\ g[i].ev = "req" /\ g[i].what = "POST"
LotWithExpenseAsync(c) == op[c].name = "addInventoryLot" /\ op[c].e2.obj /\ IsAsync(adapter)

\* C15: within one addInventoryLot call with an expense payload on an
\* asynchronous adapter, the expense read and the expense write are not started
\* while the lots write is still in flight, and a failed lots write reaches the
\* caller and no linked expense is written
C15_LotStepsInOrder ==
    \A c \in Callers :
        LotWithExpenseAsync(c)
        => /\ loc[c].bg.st = "pending" => ~AboutExpenses(log[c])
           /\ loc[c].bg.st = "failed"
              => /\ ~WritesExpenses(log[c])
                 /\ pc[c] = "done" => ret[c].st = "err"
(* remote failures *)
\* a non-success status, or a body that says ok: false
FailureResponse(r) == ~r.httpOk \/ r.okFlag = "false"
RemoteUpsert(c) == adapter = "Api" /\ op[c].name = "upsertExpense"

\* C18: a remote response with a non-success status or an explicit failure flag
\* fails the adapter call; when it answers the read of an upsertExpense the
\* upsert fails and no write request is issued, and when it answers the bulk
\* write the upsert fails with that failure (and the service keeps what it had)
C18_RemoteFailuresSurface ==
    [][\A c \in Callers : \A r \in Responses :
          (RemoteUpsert(c) /\ FailureResponse(r))
          => /\ ReadResp(c, r)
                => /\ pc'[c] = "done"
                   /\ ret'[c] = Rejected("HTTP error")
                   /\ ~WritesExpenses(log'[c])
                   /\ remote' = remote
             /\ WriteResp(c, r)
                => /\ pc'[c] = "done"
                   /\ ret'[c] = Rejected("HTTP error")
                   /\ remote' = remote]_vars

\* C18 witness: one upsert failed at its read and issued no write, another
\* failed at its write
C18_Witness ==
    \E c, d \in Callers :
        /\ adapter = "Api"
        /\ Done(c, "upsertExpense") /\ Done(d, "upsertExpense")
        /\ ret[c].st = "err" /\ ~WritesExpenses(log[c])
        /\ ret[d].st = "err" /\ WritesExpenses(log[d])
(* canonical expenses *)
\* origin is one of the two values, origin_ref is a record with its three keys
\* present, created_at is a number
CanonicalExpense(x) ==
    /\ x.obj
    /\ x.origin \in {"manual", "inventory"}
    /\ x.origin_ref.obj
    /\ x.origin_ref.product_id.t # "undef"
    /\ x.origin_ref.lot_id.t # "undef"
    /\ x.origin_ref.inventory_movement_id.t # "undef"
    /\ x.created_at.t = "num"
AllCanonical(items) == \A i \in 1..Len(items) : CanonicalExpense(items[i])
ExpenseWriters == {"save", "upsertExpense", "addExpenseFromInventory"}

\* C19: every element getExpenses returns, and every element saveExpenses,
\* upsertExpense and addExpenseFromInventory pass to the adapter, has origin
\* manual or inventory, an origin_ref with its three keys and a numeric
\* created_at, whatever the adapter stored or the caller supplied
C19_ExpensesCanonical ==
    \A c \in Callers :
        /\ (Done(c, "get") /\ op[c].kind = "expenses" /\ ret[c].st = "ok")
           => AllCanonical(ret[c].val.items)
        /\ (pc[c] = "write_wait" /\ loc[c].kind = "expenses")
           => AllCanonical(loc[c].payload)
        /\ (pc[c] = "done" /\ op[c].name \in ExpenseWriters /\ op[c].kind = "expenses"
              /\ ~IsAsync(adapter) /\ ret[c].st = "ok" /\ ~hist[c].wfail1)
           => AllCanonical(hist[c].post.expenses)

\* C19 witness: a read returned records although the store holds a legacy
\* record and an entry that is no record, while a save of an expense that was
\* not canonical is on its way to the adapter
C19_Witness ==
    \E c, d \in Callers :
        /\ Done(c, "get") /\ op[c].kind = "expenses"
        /\ ~AllCanonical(hist[c].pre.expenses)
        /\ Len(ret[c].val.items) = Len(hist[c].pre.expenses)
        /\ pc[d] = "write_wait" /\ loc[d].kind = "expenses" /\ op[d].name = "save"
        /\ ~AllCanonical(op[d].arr.items) /\ loc[d].payload # << >>
(* addInventoryProduct on the Remote adapter *)
\* the record addInventoryProduct appends for the product e
NewProduct(e, it) == \E t \in Times : it = WithId(e, t)
ExistedWithId(c, it) ==
    \E i \in 1..Len(hist[c].pre.inventoryProducts) :
        LET x == hist[c].pre.inventoryProducts[i]
        IN  HasNaturalId(x.id) /\ safeStr(x.id) = safeStr(it.id)

\* C20: when a product without an identifier is added through the facade while
\* the Remote adapter is bound, the new product reaches the service as a create
\* request (POST), and update requests (PUT) are issued only for items that
\* already existed with a non-empty id
C20_NewProductIsCreated ==
    \A c \in Callers :
        (adapter = "Api" /\ op[c].name = "addInventoryProduct" /\ ~HasNaturalId(op[c].e.id))
        => \A i \in 1..Len(log[c]) :
              LET e == log[c][i]
              IN  (e.ev = "req" /\ e.kind = "inventoryProducts" /\ e.what \in {"POST", "PUT"})
                  => /\ NewProduct(op[c].e, e.item) => e.what = "POST"
                     /\ e.what = "PUT" => ExistedWithId(c, e.item)
(* composite calls on the Local adapter *)
SyncComposites == {"upsertExpense", "addInventoryProduct", "addInventoryMovement",
                   "addInventoryLot"}
\* the id a record without a usable one is given at time t
AssignedId(e, t) == safeStr(IF Truthy(AsObject(e).id) THEN AsObject(e).id ELSE Num(t))
\* the expense is stored, and every stored canonical expense with another id stays
ExpenseKept(e, t, pre, post) ==
    /\ JsonItem(StoredForm(e, AssignedId(e, t), t)) \in Range(post)
    /\ \A x \in Range(pre) :
          (IsCanonical(x) /\ safeStr(x.id) # AssignedId(e, t)) => x \in Range(post)
\* the record is stored with its id, and every stored record stays
RecordKept(e, t, pre, post) ==
    /\ JsonItem(WithId(e, t)) \in Range(post)
    /\ \A x \in Range(pre) : x \in Range(post)

\* C21: on the Local adapter each composite operation (upsertExpense,
\* addInventoryProduct, addInventoryMovement, addInventoryLot) is one step that
\* hands back an immediate result, and when no write fails the stored
\* collection holds the upserted/added record and every record it held before
\* under another id: no update is lost, whatever calls came before
C21_LocalCompositesLoseNothing ==
    [][\A c \in Callers :
          (adapter = "Local" /\ Ran(c, SyncComposites)
             /\ ~hist'[c].wfail1 /\ ~hist'[c].wfail2)
          => LET o == op'[c]
                 pre == View("Local", local, remote, mem)
                 post == View("Local", local', remote', mem')
             IN  /\ ret'[c].mode = "immediate" /\ ret'[c].st = "ok"
                 /\ o.name = "upsertExpense"
                    => ExpenseKept(o.e, clock, pre.expenses, post.expenses)
                 /\ o.name \in {"addInventoryProduct", "addInventoryMovement"}
                    => RecordKept(o.e, clock, pre[o.kind], post[o.kind])
                 /\ o.name = "addInventoryLot"
                    => /\ RecordKept(o.e, clock, pre.inventoryLots, post.inventoryLots)
                       /\ o.e2.obj
                          => ExpenseKept(FromInventory(LotExpense(o.e2, WithId(o.e, clock)),
                                                       clock),
                                         clock, pre.expenses, post.expenses)]_vars

\* C21 witness: two callers upserted expenses under different ids, one after
\* the other with nothing failing, and the store holds both
C21_Witness ==
    \E c, d \in Callers :
        /\ c # d /\ adapter = "Local"
        /\ Done(c, "upsertExpense") /\ Done(d, "upsertExpense")
        /\ Clean(c) /\ Clean(d)
        /\ hist[d].pre = hist[c].post
        /\ Len(hist[d].post.expenses) = Len(hist[c].pre.expenses) + 2
        /\ \A x \in Range(hist[c].post.expenses) : x \in Range(hist[d].post.expenses)
(* identifier uniqueness *)
\* no two entries have the same id, compared as the code compares ids
DistinctIds(items) ==
    \A i, j \in 1..Len(items) : i # j => safeStr(items[i].id) # safeStr(items[j].id)

\* C22: an upsertExpense call that no other call overlaps leaves the stored
\* expenses with pairwise distinct ids (compared as strings) if they had
\* pairwise distinct ids before it, and with at most one entry more
C22_UpsertKeepsIdsDistinct ==
    \A c \in Callers :
        (Done(c, "upsertExpense") /\ ~hist[c].ovl)
        => /\ DistinctIds(hist[c].pre.expenses) => DistinctIds(hist[c].post.expenses)
           /\ Len(hist[c].post.expenses) <= Len(hist[c].pre.expenses) + 1

\* C22 witness: one upsert appended to a store that held records, the next one
\* replaced an entry, and the ids are still distinct
C22_Witness ==
    \E c, d \in Callers :
        /\ c # d
        /\ Done(c, "upsertExpense") /\ Done(d, "upsertExpense")
        /\ Clean(c) /\ Clean(d)
        /\ hist[d].pre = hist[c].post
        /\ Len(hist[c].pre.expenses) > 0
        /\ Len(hist[c].post.expenses) = Len(hist[c].pre.expenses) + 1
        /\ Len(hist[d].post.expenses) = Len(hist[d].pre.expenses)
        /\ hist[d].post.expenses # hist[d].pre.expenses
        /\ DistinctIds(hist[d].post.expenses)
=============================================================================
